---- MODULE Spec2Model ----
(***************************************************************************)
(* PermissionsManager (src/utils/permissions.py): the per-guild permission *)
(* config kept in the guild_config collection, the in-process guild_cache  *)
(* with its 600 s freshness window, the resolver (get_member_permission,   *)
(* get_role_permission, has_permission) and the writer (set_db_perm_level  *)
(* and its clamping callers).                                              *)
(*                                                                         *)
(* Every coroutine is cut at its await: the part before the await is one   *)
(* action, the store executing the request is one action, and the part     *)
(* after the await is one action.  find_one_and_update is atomic in the    *)
(* store, so the call of set_db_perm_level (which only logs) is merged     *)
(* with the store executing the update.                                    *)
(*                                                                         *)
(* guild_cache is read by the methods but not assigned in __init__; the    *)
(* model starts it as the empty dict.                                      *)
(***************************************************************************)
EXTENDS Integers, FiniteSets, Sequences, TLC

VARIABLES
    store,        \* db.guild_config: guild id -> document
    guild_cache,  \* self.guild_cache: dict guild id -> cached permissions
    now,          \* time.time(), in ticks of 1/TicksPerSecond seconds
    frame,        \* per coroutine slot: where it is suspended, and its locals
    ev,           \* what the last step did (the operation that returned, if any)
    lastWrite,    \* the write that returned last with no other call in flight
    putAt,        \* history: the time.time() of the last cache_guild per guild
    nops          \* number of operations called so far

vars == <<store, guild_cache, now, frame, ev, lastWrite, putAt, nops>>

----------------------------------------------------------------------------
(* Bounds and inputs *)

\* operations called in one run
MaxOps == 2
\* the last second the clock reaches
MaxClock == 603

Tenants == {"G1"}
Procs == {"p1", "p2"}
RoleIds == {"R1", "R2"}
MemberIds == {"M0", "M1"}
Fields == {"roles", "members"}
\* perm_level arguments tried on set_db_perm_level
Levels == {2, 99}
\* perm_level arguments tried on set_member_permission and set_role_permission
CallerLevels == {-5, 99}
\* req arguments tried on has_permission
Reqs == {-1, 0, 3, 5}
\* member objects handed in by discord: an id and the roles held
Members == {[id |-> "M0", roles |-> {}],
            [id |-> "M1", roles |-> {"R1"}],
            [id |-> "M1", roles |-> {"R1", "R2"}]}

\* member.guild.owner.id
OwnerId(g) == "M0"

\* resolution of time.time(): ticks per second
TicksPerSecond == 2
TTL == 600
OwnerLevel == 4
MinLevel == 0
MaxLevel == 4

\* the clock starts on x.5 s with x even, on x.5 s with x odd, or on a whole second
StartTimes == {1, 3, 4}
\* the clock advances by 599 s, 600 s or 601 s
AdvanceSteps == {(TTL - 1) * TicksPerSecond, TTL * TicksPerSecond,
                 (TTL + 1) * TicksPerSecond}

----------------------------------------------------------------------------
(* Python values *)

\* {} and None: both are falsy, and a dict is truthy iff it has a key
EmptyDict == [x \in {} |-> 0]
None == EmptyDict
Truthy(d) == DOMAIN d # {}

\* a guild_config document; exists = FALSE stands for "no document" (None)
NoDoc == [exists |-> FALSE, permissions |-> EmptyDict]
EmptyDoc == [exists |-> TRUE, permissions |-> EmptyDict]
Doc(perms) == [exists |-> TRUE, permissions |-> perms]

\* the subjects the concurrent writers contend on
WriteSubjects(field) == IF field = "roles" THEN {"R1"} ELSE {"M1"}

\* max(0, min(4, perm_level))
Min2(a, b) == IF a < b THEN a ELSE b
Max2(a, b) == IF a > b THEN a ELSE b
Clamp(perm_level) == Max2(MinLevel, Min2(MaxLevel, perm_level))

\* round(time.time()): nearest whole second, ties to the even one
Round(t) ==
    LET q == t \div TicksPerSecond
        r == t % TicksPerSecond
    IN  IF 2 * r < TicksPerSecond THEN q
        ELSE IF 2 * r > TicksPerSecond THEN q + 1
        ELSE IF q % 2 = 0 THEN q ELSE q + 1

----------------------------------------------------------------------------
(* The store: MongoDB's $set on a dotted path, with upsert *)

\* $set of the whole permissions object in place of the dotted path
DollarSet_whole(perms, field, id, lvl) ==
    [f \in {field} |-> [k \in {id} |-> lvl]]

\* $inc in place of $set
DollarSet_inc(perms, field, id, lvl) ==
    LET old == IF field \in DOMAIN perms THEN perms[field] ELSE EmptyDict
        new == [k \in DOMAIN old \cup {id} |->
                  IF k = id THEN (IF id \in DOMAIN old THEN old[id] + lvl ELSE lvl)
                  ELSE old[k]]
    IN  [f \in DOMAIN perms \cup {field} |-> IF f = field THEN new ELSE perms[f]]

DollarSet(perms, field, id, lvl) ==
    LET old == IF field \in DOMAIN perms THEN perms[field] ELSE EmptyDict
        new == [k \in DOMAIN old \cup {id} |-> IF k = id THEN lvl ELSE old[k]]
    IN  [f \in DOMAIN perms \cup {field} |-> IF f = field THEN new ELSE perms[f]]

\* the document after find_one_and_update(..., upsert=True)
Updated(doc, field, id, lvl) == Doc(DollarSet(doc.permissions, field, id, lvl))

\* a returned document that lacks permissions.field.id
WithoutPath(doc, field, id) ==
    LET p == doc.permissions
    IN  Doc([f \in DOMAIN p |->
              IF f = field THEN [k \in DOMAIN p[f] \ {id} |-> p[f][k]] ELSE p[f]])

\* what find_one_and_update hands back: the updated document, nothing, a
\* document without the path, or a document with another value at the path
ResponseKinds == {"ok", "none", "nopath", "differs"}
Response(kind, updated, field, id, lvl) ==
    CASE kind = "ok" -> updated
      [] kind = "none" -> NoDoc
      [] kind = "nopath" -> WithoutPath(updated, field, id)
      [] kind = "differs" -> Updated(updated, field, id, lvl + 1)

----------------------------------------------------------------------------
(* The cache *)

\* the dict cache_guild leaves in guild_cache[guildID]: data itself, with the
\* key last_refreshed added to it
CacheEntry(data, t) ==
    [k \in DOMAIN data \cup {"last_refreshed"} |->
        IF k = "last_refreshed" THEN Round(t) ELSE data[k]]

\* a put that updates the entry it finds instead of replacing it
cache_guild_merge(cache, guildID, data, t) ==
    LET old == IF guildID \in DOMAIN cache THEN cache[guildID] ELSE EmptyDict
        new == CacheEntry(data, t)
    IN  [h \in DOMAIN cache \cup {guildID} |->
            IF h = guildID
            THEN [k \in DOMAIN old \cup DOMAIN new |->
                     IF k \in DOMAIN new THEN new[k] ELSE old[k]]
            ELSE cache[h]]

cache_guild(cache, guildID, data, t) ==
    [h \in DOMAIN cache \cup {guildID} |->
        IF h = guildID THEN CacheEntry(data, t) ELSE cache[h]]

\* no entry ever counts as expired
Fresh_unexpiring(entry, t) == TRUE

\* a freshness test that still passes at exactly 600 s
Fresh_inclusive(entry, t) ==
    t - TicksPerSecond * entry["last_refreshed"] <= TTL * TicksPerSecond

\* the freshness test of get_cached_guild
Fresh(entry, t) ==
    t - TicksPerSecond * entry["last_refreshed"] < TTL * TicksPerSecond

\* a lookup that forgets the freshness test
get_cached_guild_any_age(cache, guildID, t) ==
    IF guildID \in DOMAIN cache /\ Truthy(cache[guildID]) THEN cache[guildID] ELSE None

get_cached_guild(cache, guildID, t) ==
    IF guildID \in DOMAIN cache /\ Truthy(cache[guildID]) /\ Fresh(cache[guildID], t)
    THEN cache[guildID]
    ELSE None

\* an invalidation that empties the whole cache
delete_cached_guild_clear(cache, guildID) == EmptyDict

\* an invalidation that leaves the entry in place
delete_cached_guild_kept(cache, guildID) == cache

delete_cached_guild(cache, guildID) ==
    [h \in DOMAIN cache \ {guildID} |-> cache[h]]

\* line 211: pop(guildID, None) is not None; an entry is a dict, never None
did_delete(cache, guildID) == guildID \in DOMAIN cache

\* the permissions a cached dict or a returned config carries, without the stamp
Payload(d) == [k \in DOMAIN d \ {"last_refreshed"} |-> d[k]]

----------------------------------------------------------------------------
(* The resolver's pure parts *)

extract_permission(id, field, permissions) ==
    IF /\ field \in DOMAIN permissions
       /\ Truthy(permissions[field])
       /\ id \in DOMAIN permissions[field]
       /\ permissions[field][id] # 0
    THEN permissions[field][id]
    ELSE 0

\* the ownership test inverted
Baseline_inverted(member, g) == IF OwnerId(g) # member.id THEN OwnerLevel ELSE 0

Baseline(member, g) == IF OwnerId(g) = member.id THEN OwnerLevel ELSE 0

\* the for loop of get_member_permission over member.roles
RECURSIVE RoleLoop(_, _, _)
RoleLoop(roles, permissions, perm_level) ==
    IF roles = {} THEN perm_level
    ELSE LET role == CHOOSE r \in roles : TRUE
             curr_role_perm == extract_permission(role, "roles", permissions)
         IN  RoleLoop(roles \ {role}, permissions,
                      IF curr_role_perm > perm_level THEN curr_role_perm ELSE perm_level)

\* a member override that replaces the role-derived level
MemberLevel_replacing(member, g, permissions) ==
    LET perm_level == Baseline(member, g)
    IN  IF Truthy(permissions)
        THEN LET looped == RoleLoop(member.roles, permissions, perm_level)
                 pure == extract_permission(member.id, "members", permissions)
             IN  IF pure # 0 THEN pure ELSE looped
        ELSE perm_level

\* get_member_permission after permissions = await get_guild_config(...)
MemberLevel(member, g, permissions) ==
    LET perm_level == Baseline(member, g)
    IN  IF Truthy(permissions)
        THEN LET looped == RoleLoop(member.roles, permissions, perm_level)
                 pure == extract_permission(member.id, "members", permissions)
             IN  IF looped > pure THEN looped ELSE pure
        ELSE perm_level

\* get_role_permission after permissions = await get_guild_config(...)
\* the lookup goes to the members overrides
RoleLevel_members(role, permissions) ==
    IF Truthy(permissions) THEN extract_permission(role, "members", permissions) ELSE 0

RoleLevel(role, permissions) ==
    IF Truthy(permissions) THEN extract_permission(role, "roles", permissions) ELSE 0

\* a fast path for req = 0 only
FastPath_zero_only(member, g, req) == req = 0

\* the test that lets has_permission return before it loads the config
FastPath(member, g, req) == req = 0 \/ Baseline(member, g) >= req

\* a role loop that asks for more than req
HasLevel_strict(member, g, req, permissions) ==
    LET perm_level == Baseline(member, g)
    IN  IF Truthy(permissions)
        THEN IF \E role \in member.roles :
                    extract_permission(role, "roles", permissions) > req
             THEN TRUE
             ELSE LET pure == extract_permission(member.id, "members", permissions)
                  IN  (IF perm_level > pure THEN perm_level ELSE pure) >= req
        ELSE perm_level >= req

\* has_permission after permissions = await get_guild_config(...)
HasLevel(member, g, req, permissions) ==
    LET perm_level == Baseline(member, g)
    IN  IF Truthy(permissions)
        THEN IF \E role \in member.roles :
                    extract_permission(role, "roles", permissions) >= req
             THEN TRUE
             ELSE LET pure == extract_permission(member.id, "members", permissions)
                  IN  (IF perm_level > pure THEN perm_level ELSE pure) >= req
        ELSE perm_level >= req

\* the verification of set_db_perm_level
Verified(conf, field, id, perm_level) ==
    /\ Truthy(conf.permissions)
    /\ field \in DOMAIN conf.permissions
    /\ Truthy(conf.permissions[field])
    /\ id \in DOMAIN conf.permissions[field]
    /\ conf.permissions[field][id] = perm_level

----------------------------------------------------------------------------
(* Coroutine slots and the record of the last step *)

NoMember == [id |-> "M0", roles |-> {}]

\* done: a set_db_perm_level returned with no other call in flight; valid: it
\* returned True
NoWrite == [valid |-> FALSE, done |-> FALSE, g |-> "G1", field |-> "roles",
            id |-> "R1", lvl |-> 0]

Idle == [pc |-> "idle", op |-> "none", g |-> "G1", field |-> "roles", id |-> "R1",
         arg |-> 0, lvl |-> 0, member |-> NoMember, req |-> 0, resp |-> NoDoc,
         after |-> NoWrite]

\* kind: "none" (initial), "tick", "fast" (has_permission returned before any
\* lookup), "hit" (returned from the cache), "miss" (suspended on find_one),
\* "find_one" / "update" (the store executed a request), "loaded" (returned
\* after find_one), "written" (set_db_perm_level returned), "notfound"
\* (handle_permission_update_request returned what logger.debug returns: none),
\* "raised" (the call ended with the store's exception); failed: the store
\* raised in this step; "put", "got", "deleted" (cache_guild, get_cached_guild,
\* delete_cached_guild called on their own)
NoEv == [kind |-> "none", op |-> "none", p |-> "p1", g |-> "G1", field |-> "roles",
         id |-> "R1", arg |-> 0, lvl |-> 0, member |-> NoMember, req |-> 0,
         ok |-> FALSE, none |-> FALSE, failed |-> FALSE, level |-> 0,
         config |-> None,
         conf |-> NoDoc, reply |-> "ok",
         cacheRead |-> FALSE, storeRead |-> FALSE, hadEntry |-> FALSE,
         wasFresh |-> FALSE, after |-> NoWrite]

Returned(e) == e.kind \in {"fast", "hit", "loaded", "written"}

AllIdle == \A p \in Procs : frame[p].pc = "idle"

\* the slot a new call takes: the first idle one
NextFree == IF frame["p1"].pc = "idle" THEN "p1" ELSE "p2"
CanCall(p) == frame[p].pc = "idle" /\ p = NextFree /\ nops < MaxOps

HadEntry(g) == g \in DOMAIN guild_cache
WasFresh(g) == Truthy(get_cached_guild(guild_cache, g, now))

\* what a reader returns once get_guild_config has handed it permissions
Answer(e, permissions) ==
    CASE e.op = "get_guild_config" -> [e EXCEPT !.config = permissions]
      [] e.op = "get_member_permission" ->
            [e EXCEPT !.config = permissions,
                      !.level = MemberLevel(e.member, e.g, permissions)]
      [] e.op = "get_role_permission" ->
            [e EXCEPT !.config = permissions,
                      !.level = RoleLevel(e.id, permissions)]
      [] e.op = "has_permission" ->
            [e EXCEPT !.config = permissions,
                      !.ok = HasLevel(e.member, e.g, e.req, permissions)]

----------------------------------------------------------------------------
(* get_guild_config, up to its await *)

\* lines 24-28: serve the fresh cached dict, or send find_one and suspend
LoadCall(p, op, g, member, id, req) ==
    /\ LET cached_guild == get_cached_guild(guild_cache, g, now)
           e == [NoEv EXCEPT !.op = op, !.p = p, !.g = g, !.member = member,
                             !.id = id, !.req = req, !.cacheRead = TRUE,
                             !.hadEntry = HadEntry(g), !.wasFresh = WasFresh(g),
                             !.after = lastWrite]
       IN  IF Truthy(cached_guild)
           THEN /\ ev' = Answer([e EXCEPT !.kind = "hit"], cached_guild)
                /\ frame' = frame
           ELSE /\ ev' = [e EXCEPT !.kind = "miss"]
                /\ frame' = [frame EXCEPT ![p] =
                       [Idle EXCEPT !.pc = "find_one", !.op = op, !.g = g,
                                    !.member = member, !.id = id, !.req = req,
                                    !.after = lastWrite]]
    /\ lastWrite' = NoWrite
    /\ nops' = nops + 1
    /\ UNCHANGED <<store, guild_cache, now, putAt>>

GetGuildConfig(p, g) ==
    /\ CanCall(p)
    /\ LoadCall(p, "get_guild_config", g, NoMember, "R1", 0)

\* line 46; get_permission dispatches a member here (line 74)
GetMemberPermission(p, member, g) ==
    /\ CanCall(p)
    /\ LoadCall(p, "get_member_permission", g, member, "R1", 0)

\* line 64; get_permission dispatches a role here (line 76)
GetRolePermission(p, role, g) ==
    /\ CanCall(p)
    /\ LoadCall(p, "get_role_permission", g, NoMember, role, 0)

\* lines 81-88: return True at once, or go on to get_guild_config
HasPermission(p, member, g, req) ==
    /\ CanCall(p)
    /\ IF FastPath(member, g, req)
       THEN /\ ev' = [NoEv EXCEPT !.kind = "fast", !.op = "has_permission",
                                  !.p = p, !.g = g, !.member = member, !.req = req,
                                  !.ok = TRUE, !.hadEntry = HadEntry(g),
                                  !.wasFresh = WasFresh(g), !.after = lastWrite]
            /\ lastWrite' = NoWrite
            /\ nops' = nops + 1
            /\ UNCHANGED <<store, guild_cache, now, frame, putAt>>
       ELSE LoadCall(p, "has_permission", g, member, "R1", req)

\* a load that caches whatever came back
Loaded_always(cache, guildID, conf, t) ==
    cache_guild(cache, guildID, conf.permissions, t)

\* lines 30-31: cache_guild only if the document carries permissions
Loaded(cache, guildID, conf, t) ==
    IF Truthy(conf.permissions)
    THEN cache_guild(cache, guildID, conf.permissions, t)
    ELSE cache

\* the store executes find_one({"_id": guildID})
FindOne(p) ==
    /\ frame[p].pc = "find_one"
    /\ frame' = [frame EXCEPT ![p].pc = "find_one_done", ![p].resp = store[frame[p].g]]
    /\ ev' = [NoEv EXCEPT !.kind = "find_one", !.p = p, !.g = frame[p].g]
    /\ UNCHANGED <<store, guild_cache, now, lastWrite, putAt, nops>>

\* lines 28-33, and the caller's code after its await
ResumeLoad(p) ==
    /\ frame[p].pc = "find_one_done"
    /\ LET f == frame[p]
           conf == f.resp
           perms == conf.permissions
           cached == Truthy(perms)
           cache2 == Loaded(guild_cache, f.g, conf, now)
           \* conf.get("permissions") is the dict cache_guild has just stamped
           permissions == IF cached THEN cache2[f.g] ELSE None
           e == [NoEv EXCEPT !.kind = "loaded", !.op = f.op, !.p = p, !.g = f.g,
                             !.member = f.member, !.id = f.id, !.req = f.req,
                             !.conf = conf, !.cacheRead = TRUE, !.storeRead = TRUE,
                             !.hadEntry = HadEntry(f.g), !.wasFresh = WasFresh(f.g),
                             !.after = f.after]
       IN  /\ guild_cache' = cache2
           /\ putAt' = IF cache2 # guild_cache
                       THEN [h \in DOMAIN cache2 |-> IF h = f.g THEN now ELSE putAt[h]]
                       ELSE putAt
           /\ ev' = Answer(e, permissions)
    /\ frame' = [frame EXCEPT ![p] = Idle]
    /\ UNCHANGED <<store, now, lastWrite, nops>>

----------------------------------------------------------------------------
(* set_db_perm_level and its callers *)

\* lines 112-122: the request, which the store executes in one atomic step
UpdateCall(p, op, g, field, id, arg, perm_level) ==
    /\ store' = [store EXCEPT ![g] = Updated(store[g], field, id, perm_level)]
    /\ frame' = [frame EXCEPT ![p] =
           [Idle EXCEPT !.pc = "update_done", !.op = op, !.g = g, !.field = field,
                        !.id = id, !.arg = arg, !.lvl = perm_level,
                        !.resp = store'[g]]]
    /\ ev' = [NoEv EXCEPT !.kind = "update", !.op = op, !.p = p, !.g = g,
                          !.field = field, !.id = id, !.arg = arg, !.lvl = perm_level]
    \* the write before this one is remembered while this one repeats it
    /\ lastWrite' = IF /\ lastWrite.done
                       /\ lastWrite.g = g
                       /\ lastWrite.field = field
                       /\ lastWrite.id = id
                       /\ lastWrite.lvl = perm_level
                    THEN lastWrite ELSE NoWrite
    /\ nops' = nops + 1
    /\ UNCHANGED <<guild_cache, now, putAt>>

SetDbPermLevel(p, g, field, id, perm_level) ==
    /\ CanCall(p)
    /\ UpdateCall(p, "set_db_perm_level", g, field, id, perm_level, perm_level)

\* lines 140-146; set_permission dispatches a member here (line 160)
SetMemberPermission(p, g, id, perm_level) ==
    /\ CanCall(p)
    /\ UpdateCall(p, "set_member_permission", g, "members", id, perm_level,
                  Clamp(perm_level))

\* lines 148-154; set_permission dispatches a role here (line 162)
SetRolePermission(p, g, id, perm_level) ==
    /\ CanCall(p)
    /\ UpdateCall(p, "set_role_permission", g, "roles", id, perm_level,
                  Clamp(perm_level))

\* lines 122-138: verify the document the store handed back (kind says how it
\* deviates from the updated document, if it does), cache it or drop the entry
ResumeSet(p, kind) ==
    /\ frame[p].pc = "update_done"
    /\ LET f == frame[p]
           conf == Response(kind, f.resp, f.field, f.id, f.lvl)
           good == Verified(conf, f.field, f.id, f.lvl)
           cache2 == IF good
                     THEN cache_guild(guild_cache, f.g, conf.permissions, now)
                     ELSE delete_cached_guild(guild_cache, f.g)
       IN  /\ guild_cache' = cache2
           /\ putAt' = [h \in DOMAIN cache2 |-> IF h = f.g THEN now ELSE putAt[h]]
           /\ ev' = [NoEv EXCEPT !.kind = "written", !.op = f.op, !.p = p,
                                 !.g = f.g,
                                 !.field = f.field, !.id = f.id, !.arg = f.arg,
                                 !.lvl = f.lvl, !.ok = good, !.conf = conf,
                                 !.reply = kind,
                                 !.hadEntry = HadEntry(f.g),
                                 !.wasFresh = WasFresh(f.g), !.after = lastWrite]
           /\ lastWrite' = IF \A q \in Procs \ {p} : frame[q].pc = "idle"
                           THEN [valid |-> good, done |-> TRUE, g |-> f.g,
                                 field |-> f.field, id |-> f.id, lvl |-> f.lvl]
                           ELSE NoWrite
    /\ frame' = [frame EXCEPT ![p] = Idle]
    /\ UNCHANGED <<store, now, nops>>

----------------------------------------------------------------------------
(* The store raises: lines 28 and 115 await it outside any try *)

\* an except clause that drops the entry and returns False
StoreError_swallowed(e, cache) ==
    [ev |-> [e EXCEPT !.kind = "written", !.ok = FALSE],
     cache |-> delete_cached_guild(cache, e.g)]

\* the exception leaves the coroutine as it came, nothing else runs
StoreError(e, cache) == [ev |-> [e EXCEPT !.kind = "raised"], cache |-> cache]

\* find_one raised
RaiseLoad(p) ==
    /\ frame[p].pc = "find_one"
    /\ LET f == frame[p]
           e == [NoEv EXCEPT !.op = f.op, !.p = p, !.g = f.g, !.member = f.member,
                             !.id = f.id, !.req = f.req, !.failed = TRUE,
                             !.cacheRead = TRUE, !.hadEntry = HadEntry(f.g),
                             !.wasFresh = WasFresh(f.g)]
           out == StoreError(e, guild_cache)
       IN  /\ ev' = out.ev
           /\ guild_cache' = out.cache
           /\ putAt' = [h \in DOMAIN out.cache |-> putAt[h]]
    /\ frame' = [frame EXCEPT ![p] = Idle]
    /\ UNCHANGED <<store, now, lastWrite, nops>>

\* find_one_and_update raised once the store had executed the request
RaiseSet(p) ==
    /\ frame[p].pc = "update_done"
    /\ LET f == frame[p]
           e == [NoEv EXCEPT !.op = f.op, !.p = p, !.g = f.g, !.field = f.field,
                             !.id = f.id, !.arg = f.arg, !.lvl = f.lvl,
                             !.failed = TRUE, !.hadEntry = HadEntry(f.g),
                             !.wasFresh = WasFresh(f.g)]
           out == StoreError(e, guild_cache)
       IN  /\ ev' = out.ev
           /\ guild_cache' = out.cache
           /\ putAt' = [h \in DOMAIN out.cache |-> putAt[h]]
    /\ frame' = [frame EXCEPT ![p] = Idle]
    /\ lastWrite' = NoWrite
    /\ UNCHANGED <<store, now, nops>>

\* set_db_perm_level whose find_one_and_update raises with nothing executed
SetDbPermLevelRefused(p, g, field, id, perm_level) ==
    /\ CanCall(p)
    /\ LET e == [NoEv EXCEPT !.op = "set_db_perm_level", !.p = p, !.g = g,
                             !.field = field, !.id = id, !.arg = perm_level,
                             !.lvl = perm_level, !.failed = TRUE,
                             !.hadEntry = HadEntry(g), !.wasFresh = WasFresh(g)]
           out == StoreError(e, guild_cache)
       IN  /\ ev' = out.ev
           /\ guild_cache' = out.cache
           /\ putAt' = [h \in DOMAIN out.cache |-> putAt[h]]
    /\ lastWrite' = NoWrite
    /\ nops' = nops + 1
    /\ UNCHANGED <<store, now, frame>>

----------------------------------------------------------------------------
(* handle_permission_update_request *)

\* the guilds self.bot.get_guild finds, and the ids a request can carry
BotGuilds == Tenants
RequestGuilds == Tenants \cup {"G0"}
RequestObjs == {"R1", "M1", "X0"}
RequestLevels == {99}

\* line 167 and 169: the guild was found
get_guild(guild_id) == guild_id \in BotGuilds

\* every obj_id is taken for a known one
Target_any(is_role, obj_id) == TRUE

\* lines 175-180: guild.get_role / guild.get_member found the target
Target(is_role, obj_id) ==
    IF is_role THEN obj_id \in RoleIds ELSE obj_id \in MemberIds

\* lines 166-183: return logger.debug(...), which is None, when the guild or
\* the target is not found; else set_permission(target, level), lines 156-162
HandlePermissionUpdateRequest(p, guild_id, obj_id, level, is_role) ==
    /\ CanCall(p)
    /\ LET field == IF is_role THEN "roles" ELSE "members"
       IN  IF get_guild(guild_id) /\ Target(is_role, obj_id)
           THEN UpdateCall(p, "handle_permission_update_request", guild_id, field,
                           obj_id, level, Clamp(level))
           ELSE /\ ev' = [NoEv EXCEPT !.kind = "notfound",
                                      !.op = "handle_permission_update_request",
                                      !.p = p, !.g = guild_id, !.field = field,
                                      !.id = obj_id, !.arg = level, !.none = TRUE]
                /\ lastWrite' = NoWrite
                /\ nops' = nops + 1
                /\ UNCHANGED <<store, guild_cache, now, frame, putAt>>

----------------------------------------------------------------------------
(* The clock *)

Tick(d) ==
    /\ now + d <= MaxClock * TicksPerSecond
    /\ now' = now + d
    /\ ev' = [NoEv EXCEPT !.kind = "tick"]
    /\ UNCHANGED <<store, guild_cache, frame, lastWrite, putAt, nops>>

----------------------------------------------------------------------------
(* Specifications *)

\* documents a guild can start with
InitDocs == {NoDoc, EmptyDoc, Doc([roles |-> [R1 |-> 3]]),
             Doc([roles |-> [R1 |-> 1, R2 |-> 3], members |-> [M0 |-> 2, M1 |-> 0]])}

Init ==
    /\ store \in [Tenants -> InitDocs]
    /\ guild_cache = EmptyDict
    /\ now \in StartTimes
    /\ frame = [p \in Procs |-> Idle]
    /\ ev = NoEv
    /\ lastWrite = NoWrite
    /\ putAt = EmptyDict
    /\ nops = 0

\* the steps that continue a suspended coroutine, and the clock
Continue ==
    \/ \E p \in Procs : FindOne(p)
    \/ \E p \in Procs : ResumeLoad(p)
    \/ \E p \in Procs, kind \in ResponseKinds : ResumeSet(p, kind)
    \/ \E d \in AdvanceSteps : Tick(d)

\* the loader and the writers, called while other calls are in flight
Next ==
    \/ \E p \in Procs, g \in Tenants : GetGuildConfig(p, g)
    \/ \E p \in Procs, g \in Tenants, field \in Fields, lvl \in Levels :
          \E id \in WriteSubjects(field) : SetDbPermLevel(p, g, field, id, lvl)
    \/ \E p \in Procs, g \in Tenants, id \in WriteSubjects("members"),
          lvl \in CallerLevels : SetMemberPermission(p, g, id, lvl)
    \/ \E p \in Procs, g \in Tenants, id \in WriteSubjects("roles"),
          lvl \in CallerLevels : SetRolePermission(p, g, id, lvl)
    \/ Continue

Spec == Init /\ [][Next]_vars

\* every operation, one call at a time
NextSeq ==
    \/ \E p \in Procs, g \in Tenants : AllIdle /\ GetGuildConfig(p, g)
    \/ \E p \in Procs, g \in Tenants, member \in Members :
          AllIdle /\ GetMemberPermission(p, member, g)
    \/ \E p \in Procs, g \in Tenants, role \in RoleIds :
          AllIdle /\ GetRolePermission(p, role, g)
    \/ \E p \in Procs, g \in Tenants, member \in Members, req \in Reqs :
          AllIdle /\ HasPermission(p, member, g, req)
    \/ \E p \in Procs, g \in Tenants, field \in Fields, lvl \in Levels :
          \E id \in WriteSubjects(field) :
             AllIdle /\ SetDbPermLevel(p, g, field, id, lvl)
    \/ \E p \in Procs, g \in Tenants, id \in WriteSubjects("members"),
          lvl \in CallerLevels : AllIdle /\ SetMemberPermission(p, g, id, lvl)
    \/ \E p \in Procs, g \in Tenants, id \in WriteSubjects("roles"),
          lvl \in CallerLevels : AllIdle /\ SetRolePermission(p, g, id, lvl)
    \/ \E p \in Procs, guild_id \in RequestGuilds, obj_id \in RequestObjs,
          level \in RequestLevels, is_role \in BOOLEAN :
             AllIdle /\ HandlePermissionUpdateRequest(p, guild_id, obj_id, level,
                                                      is_role)
    \/ \E p \in Procs, g \in Tenants, field \in Fields, lvl \in Levels :
          \E id \in WriteSubjects(field) :
             AllIdle /\ SetDbPermLevelRefused(p, g, field, id, lvl)
    \/ \E p \in Procs : RaiseLoad(p)
    \/ \E p \in Procs : RaiseSet(p)
    \/ Continue

SpecSeq == Init /\ [][NextSeq]_vars

----------------------------------------------------------------------------
(* The cache methods called on their own, for two guilds *)

CacheGuilds == {"G1", "G2"}

\* the data handed to cache_guild
CacheData == {EmptyDict, [roles |-> [R1 |-> 3]],
              [roles |-> [R1 |-> 1], members |-> [M1 |-> 2]]}

\* lines 186-195
CacheGuild(guildID, data) ==
    /\ guild_cache' = cache_guild(guild_cache, guildID, data, now)
    /\ putAt' = [h \in DOMAIN guild_cache' |-> IF h = guildID THEN now ELSE putAt[h]]
    /\ ev' = [NoEv EXCEPT !.kind = "put", !.op = "cache_guild", !.g = guildID,
                          !.config = data, !.hadEntry = HadEntry(guildID),
                          !.wasFresh = WasFresh(guildID)]
    /\ UNCHANGED <<store, now, frame, lastWrite, nops>>

\* lines 197-205
GetCachedGuild(guildID) ==
    /\ ev' = [NoEv EXCEPT !.kind = "got", !.op = "get_cached_guild", !.g = guildID,
                          !.config = get_cached_guild(guild_cache, guildID, now),
                          !.cacheRead = TRUE, !.hadEntry = HadEntry(guildID),
                          !.wasFresh = WasFresh(guildID)]
    /\ UNCHANGED <<store, guild_cache, now, frame, lastWrite, putAt, nops>>

\* lines 207-217
DeleteCachedGuild(guildID) ==
    /\ guild_cache' = delete_cached_guild(guild_cache, guildID)
    /\ putAt' = [h \in DOMAIN guild_cache' |-> putAt[h]]
    /\ ev' = [NoEv EXCEPT !.kind = "deleted", !.op = "delete_cached_guild",
                          !.g = guildID, !.ok = did_delete(guild_cache, guildID),
                          !.hadEntry = HadEntry(guildID),
                          !.wasFresh = WasFresh(guildID)]
    /\ UNCHANGED <<store, now, frame, lastWrite, nops>>

NextCache ==
    \/ \E g \in CacheGuilds, data \in CacheData : CacheGuild(g, data)
    \/ \E g \in CacheGuilds : GetCachedGuild(g)
    \/ \E g \in CacheGuilds : DeleteCachedGuild(g)
    \/ \E d \in AdvanceSteps : Tick(d)

SpecCache == Init /\ [][NextCache]_vars

----------------------------------------------------------------------------
(* Properties of the cache and the writer, under Spec *)

HasPath(perms, field, id) == field \in DOMAIN perms /\ id \in DOMAIN perms[field]

\* time.time() - last_refreshed of the entry kept for g, in ticks
Age(g) == now - TicksPerSecond * guild_cache[g]["last_refreshed"]

\* the returned document does not carry perm_level at permissions.field.id
Deviates(conf, field, id, perm_level) ==
    \/ ~conf.exists
    \/ ~HasPath(conf.permissions, field, id)
    \/ conf.permissions[field][id] # perm_level

\* C1: whenever set_db_perm_level returns True, the guild has a cache entry and
\* its value at field.subject equals the stored document's value at
\* permissions.field.subject.
C1_VerifiedWriteAgrees ==
    (ev.kind = "written" /\ ev.ok) =>
        /\ ev.g \in DOMAIN guild_cache
        /\ HasPath(guild_cache[ev.g], ev.field, ev.id)
        /\ HasPath(store[ev.g].permissions, ev.field, ev.id)
        /\ guild_cache[ev.g][ev.field][ev.id] = store[ev.g].permissions[ev.field][ev.id]

\* C2: when find_one_and_update hands back no document, a document without
\* permissions.field.subject, or one with another value there,
\* set_db_perm_level returns False and the guild has no cache entry right
\* after, so get_cached_guild has nothing to return.
C2_FailedWriteInvalidates ==
    (ev.kind = "written" /\ Deviates(ev.conf, ev.field, ev.id, ev.lvl)) =>
        /\ ~ev.ok
        /\ ev.g \notin DOMAIN guild_cache
        /\ ~Truthy(get_cached_guild(guild_cache, ev.g, now))

\* a stale entry was dropped after the store handed back a deviating document
C2_Witness ==
    /\ ev.kind = "written"
    /\ ~ev.ok
    /\ ev.conf.exists
    /\ ev.hadEntry
    /\ ~ev.wasFresh
    /\ ev.g \notin DOMAIN guild_cache

\* C3: the cache serves a config only from an existing entry with
\* time.time() - last_refreshed < 600; a call of get_guild_config that finds
\* an entry with time.time() - last_refreshed >= 600 is not served from it and
\* goes on to find_one.
C3_NeverServedStale ==
    /\ ev.kind = "hit" =>
          /\ ev.g \in DOMAIN guild_cache
          /\ Age(ev.g) < TTL * TicksPerSecond
          /\ ev.config = guild_cache[ev.g]
    /\ (/\ ev.kind \in {"hit", "miss"}
        /\ ev.g \in DOMAIN guild_cache
        /\ Age(ev.g) >= TTL * TicksPerSecond) =>
          /\ ev.kind = "miss"
          /\ frame[ev.p].pc = "find_one"
          /\ frame[ev.p].g = ev.g

\* an entry exactly 600 s old was passed over
C3_Witness ==
    /\ ev.kind = "miss"
    /\ ev.g \in DOMAIN guild_cache
    /\ Age(ev.g) = TTL * TicksPerSecond

\* C4: a get_guild_config called up to 599 s after the last cache_guild of the
\* guild (the entry not dropped since) returns the cached dict without a store
\* read; one called 601 s after it or later goes to the store.
C4_FreshnessWindow ==
    (ev.kind \in {"hit", "miss"} /\ ev.g \in DOMAIN putAt) =>
        /\ now - putAt[ev.g] <= (TTL - 1) * TicksPerSecond =>
              /\ ev.kind = "hit"
              /\ ~ev.storeRead
              /\ ev.config = guild_cache[ev.g]
              /\ frame[ev.p].pc = "idle"
        /\ now - putAt[ev.g] >= (TTL + 1) * TicksPerSecond =>
              /\ ev.kind = "miss"
              /\ frame[ev.p].pc = "find_one"
              /\ frame[ev.p].g = ev.g

\* served 599 s after a put whose stamp was rounded down
C4_Witness ==
    /\ ev.kind = "hit"
    /\ ev.g \in DOMAIN putAt
    /\ now - putAt[ev.g] = (TTL - 1) * TicksPerSecond
    /\ TicksPerSecond * guild_cache[ev.g]["last_refreshed"] < putAt[ev.g]

InRange(level) == MinLevel <= level /\ level <= MaxLevel

AllInRange(perms) ==
    \A field \in DOMAIN perms \cap Fields :
        \A id \in DOMAIN perms[field] : InRange(perms[field][id])

\* C5: set_db_perm_level, called with any perm_level, writes and caches
\* min(4, max(0, perm_level)); every level in the stored documents and in the
\* cache lies in [0, 4].
C5_LevelsClamped ==
    /\ \A g \in Tenants : AllInRange(store[g].permissions)
    /\ \A g \in DOMAIN guild_cache : AllInRange(guild_cache[g])
    /\ ev.kind = "update" =>
          store[ev.g].permissions[ev.field][ev.id] = Clamp(ev.arg)
    /\ (ev.kind = "written" /\ ev.ok) =>
          guild_cache[ev.g][ev.field][ev.id] = Clamp(ev.arg)

----------------------------------------------------------------------------
(* Properties of the resolver, under SpecSeq *)

\* the override configured at field.id, 0 when there is none
Override(config, field, id) ==
    IF HasPath(config, field, id) THEN config[field][id] ELSE 0

SetMax(S) == CHOOSE x \in S : \A y \in S : y <= x

RoleMax(config, roles) == SetMax({Override(config, "roles", r) : r \in roles} \cup {0})

IsOwner(member, g) == member.id = OwnerId(g)

OwnerBaseline(member, g) == IF IsOwner(member, g) THEN 4 ELSE 0

\* what get_guild_config returns when called in the current state with no
\* other call in flight
SeqConfig(g) ==
    IF Truthy(get_cached_guild(guild_cache, g, now))
    THEN get_cached_guild(guild_cache, g, now)
    ELSE IF Truthy(store[g].permissions) THEN store[g].permissions ELSE None

\* C6: get_member_permission returns max(baseline, roleMax, memberOverride)
\* over the config it loaded: at least every level configured for a role the
\* member holds, and never below max(baseline, roleMax).
C6_MemberLevelIsMax ==
    (ev.op = "get_member_permission" /\ Returned(ev)) =>
        LET baseline == OwnerBaseline(ev.member, ev.g)
            roleMax == RoleMax(ev.config, ev.member.roles)
            memberOverride == Override(ev.config, "members", ev.member.id)
        IN  /\ ev.level = SetMax({baseline, roleMax, memberOverride})
            /\ \A r \in ev.member.roles :
                  HasPath(ev.config, "roles", r) => ev.level >= ev.config["roles"][r]
            /\ ev.level >= SetMax({baseline, roleMax})

\* a member override below the role-derived level did not lower the result
C6_Witness ==
    /\ ev.op = "get_member_permission"
    /\ Returned(ev)
    /\ ev.member.roles = {"R1", "R2"}
    /\ HasPath(ev.config, "members", ev.member.id)
    /\ ev.config["members"][ev.member.id] = 2
    /\ RoleMax(ev.config, ev.member.roles) = 3
    /\ ev.level = 3

\* the guild has no document or a document without permissions, and no entry
NoConfiguration(g) == ~Truthy(store[g].permissions) /\ g \notin DOMAIN guild_cache

\* C7: for a guild without configuration get_permission returns 0 for every
\* member who is not the owner and for every role, and 4 for the owner.
C7_NoConfigIsLeastPrivilege ==
    (/\ ev.op \in {"get_member_permission", "get_role_permission"}
     /\ Returned(ev)
     /\ NoConfiguration(ev.g)) =>
        ev.level = IF ev.op = "get_member_permission" /\ IsOwner(ev.member, ev.g)
                   THEN 4 ELSE 0

\* a member who is not the owner was resolved against a document without
\* permissions
C7_Witness ==
    /\ ev.op = "get_member_permission"
    /\ ev.kind = "loaded"
    /\ store[ev.g] = EmptyDoc
    /\ ev.g \notin DOMAIN guild_cache
    /\ ~IsOwner(ev.member, ev.g)
    /\ ev.level = 0

\* C8: has_permission(member, req) is True exactly when get_member_permission
\* of the same member, evaluated in the same state, is >= req.
C8_HasPermissionAgrees ==
    (ev.op = "has_permission" /\ Returned(ev)) =>
        (ev.ok <=> MemberLevel(ev.member, ev.g, SeqConfig(ev.g)) >= ev.req)

\* granted after a lookup, by a role whose level equals req
C8_Witness ==
    /\ ev.op = "has_permission"
    /\ ev.kind = "loaded"
    /\ ev.ok
    /\ ev.req = 3
    /\ ~IsOwner(ev.member, ev.g)
    /\ RoleMax(ev.config, ev.member.roles) = 3

\* C9 as claimed: has_permission returns True at once, reading neither the
\* cache nor the store, whenever req = 0 or the member is the guild owner, for
\* every integer req.
C9_OwnerOrZeroImmediate ==
    (/\ ev.op = "has_permission"
     /\ ev.kind \in {"fast", "hit", "miss"}
     /\ (ev.req = 0 \/ IsOwner(ev.member, ev.g))) =>
        /\ ev.kind = "fast"
        /\ ev.ok
        /\ ~ev.cacheRead
        /\ ~ev.storeRead
        /\ frame[ev.p].pc = "idle"

\* C9: has_permission returns True at once, reading neither the cache nor the
\* store, whenever req = 0, or the member is the guild owner and req <= 4.
C9_FastPathImmediate ==
    (/\ ev.op = "has_permission"
     /\ ev.kind \in {"fast", "hit", "miss"}
     /\ (ev.req = 0 \/ (IsOwner(ev.member, ev.g) /\ ev.req <= 4))) =>
        /\ ev.kind = "fast"
        /\ ev.ok
        /\ ~ev.cacheRead
        /\ ~ev.storeRead
        /\ frame[ev.p].pc = "idle"

\* the owner was let through at req = 3 without a lookup
C9_Witness ==
    /\ ev.op = "has_permission"
    /\ ev.kind = "fast"
    /\ IsOwner(ev.member, ev.g)
    /\ ev.req = 3
    /\ ev.ok

\* C10: with one call at a time, the get_member_permission(M) that follows a
\* set_db_perm_level(guild, "members", M, l) that returned True returns
\* max(baseline, roleMax, clamp(l)) over the stored document.
C10_ReadYourWrite ==
    (/\ ev.op = "get_member_permission"
     /\ Returned(ev)
     /\ ev.after.valid
     /\ ev.after.g = ev.g
     /\ ev.after.field = "members"
     /\ ev.after.id = ev.member.id) =>
        ev.level = SetMax({OwnerBaseline(ev.member, ev.g),
                           RoleMax(store[ev.g].permissions, ev.member.roles),
                           Clamp(ev.after.lvl)})

----------------------------------------------------------------------------
(* Properties of the writer's store request *)

\* the permission config the cache keeps for g, and whether it keeps one
CachedConfig(cache, g) ==
    IF g \in DOMAIN cache THEN <<TRUE, Payload(cache[g])>> ELSE <<FALSE, None>>

\* w is a finished solo write with the arguments of the write in event e
Repeats(e, w) ==
    /\ w.done
    /\ w.g = e.g
    /\ w.field = e.field
    /\ w.id = e.id
    /\ w.lvl = e.lvl

\* C11: with one call at a time, a set_db_perm_level that repeats the call before
\* it (same guild, field, subject and level), the store handing back the
\* updated document to both or to neither, leaves the stored document and the
\* cached permission config as the first call left them and returns the
\* boolean the first call returned.
C11_SetLevelIdempotent ==
    [][/\ (ev'.kind = "update" /\ Repeats(ev', lastWrite)) => store' = store
       /\ (/\ ev'.kind = "written"
           /\ Repeats(ev', ev'.after)
           /\ (ev'.reply = "ok") = ev'.after.valid) =>
              /\ ev'.ok = ev'.after.valid
              /\ store' = store
              /\ CachedConfig(guild_cache', ev'.g) = CachedConfig(guild_cache, ev'.g)]_vars

\* the second of two equal writes returned True as the first had, 600 s later
C11_Witness ==
    /\ ev.kind = "written"
    /\ Repeats(ev, ev.after)
    /\ ev.reply = "ok"
    /\ ev.after.valid
    /\ ev.ok
    /\ ev.hadEntry
    /\ ~ev.wasFresh

\* the writer in slot q has had its request executed and waits for the reply
Pending(fr, q) == fr[q].pc = "update_done"

\* the value at permissions.field.id, if there is one
ValueAt(perms, field, id) ==
    IF HasPath(perms, field, id) THEN <<TRUE, perms[field][id]>> ELSE <<FALSE, 0>>

\* C12: the store's execution of a set_db_perm_level request puts the level at
\* permissions.field.subject and changes no other field.subject of the guild's
\* document; so when a second writer's request is executed while a first
\* writer on the same guild and another subject still waits for its reply,
\* the document holds both levels.
C12_ConcurrentWritesKept ==
    [][ev'.kind = "update" =>
         LET old == store[ev'.g].permissions
             new == store'[ev'.g].permissions
         IN  /\ ValueAt(new, ev'.field, ev'.id) = <<TRUE, ev'.lvl>>
             /\ \A f \in Fields, i \in RoleIds \cup MemberIds :
                    (f # ev'.field \/ i # ev'.id) =>
                        ValueAt(new, f, i) = ValueAt(old, f, i)
             /\ \A q \in Procs \ {ev'.p} :
                    (/\ Pending(frame, q)
                     /\ frame[q].g = ev'.g
                     /\ (frame[q].field # ev'.field \/ frame[q].id # ev'.id)
                     /\ ValueAt(old, frame[q].field, frame[q].id)
                            = <<TRUE, frame[q].lvl>>) =>
                        ValueAt(new, frame[q].field, frame[q].id)
                            = <<TRUE, frame[q].lvl>>]_vars

\* both writers wait for their replies and the document holds roles.R1 and
\* members.M1 as written
C12_Witness ==
    /\ ev.kind = "update"
    /\ \A q \in Procs : Pending(frame, q) /\ frame[q].g = ev.g
    /\ frame["p1"].field # frame["p2"].field
    /\ \A q \in Procs :
          ValueAt(store[ev.g].permissions, frame[q].field, frame[q].id)
             = <<TRUE, frame[q].lvl>>

----------------------------------------------------------------------------
(* Properties of the remote update request *)

\* the request in event e names a guild the bot is not in, or an id that is not
\* a role (is_role) or not a member (otherwise) of the guild
Unresolvable(e) ==
    \/ e.g \notin BotGuilds
    \/ e.field = "roles" /\ e.id \notin RoleIds
    \/ e.field = "members" /\ e.id \notin MemberIds

\* C13: a handle_permission_update_request whose guild or subject cannot be
\* resolved sends no request to the store, leaves store and cache as they
\* were, and returns none, which no set_db_perm_level returns: a failed
\* verification returns False.
C13_LookupFailureWritesNothing ==
    [][/\ (/\ ev'.op = "handle_permission_update_request"
           /\ ev'.kind \in {"update", "notfound"}
           /\ Unresolvable(ev')) =>
              /\ ev'.kind = "notfound"
              /\ ev'.none
              /\ store' = store
              /\ guild_cache' = guild_cache
              /\ frame' = frame
       /\ ev'.kind = "written" => ~ev'.none]_vars

\* a request for an id that is no role of G1 returned none while G1 was cached
C13_Witness ==
    /\ ev.kind = "notfound"
    /\ ev.g = "G1"
    /\ ev.field = "roles"
    /\ ev.id = "X0"
    /\ ev.none
    /\ ev.g \in DOMAIN guild_cache
    /\ AllIdle

----------------------------------------------------------------------------
(* Properties of a failing store *)

\* C14: when find_one or find_one_and_update raises, the call ends with that
\* exception: it returns no config, level or boolean, and the cache is left
\* as it was when the call was made.
C14_StoreErrorPropagates ==
    [][/\ ev'.failed =>
              /\ ev'.kind = "raised"
              /\ ~Returned(ev')
              /\ guild_cache' = guild_cache
              /\ frame'[ev'.p].pc = "idle"
       /\ ev'.kind \in {"miss", "find_one", "update"} =>
              guild_cache' = guild_cache]_vars

\* a write the store had executed ended with an exception; the entry the guild
\* had is still there and no longer shows the stored level
C14_Witness ==
    /\ ev.kind = "raised"
    /\ ev.failed
    /\ ev.op = "set_db_perm_level"
    /\ ev.hadEntry
    /\ ev.g \in DOMAIN guild_cache
    /\ HasPath(store[ev.g].permissions, ev.field, ev.id)
    /\ store[ev.g].permissions[ev.field][ev.id] = ev.lvl
    /\ ValueAt(Payload(guild_cache[ev.g]), ev.field, ev.id) # <<TRUE, ev.lvl>>

----------------------------------------------------------------------------
(* Properties of the role lookup *)

\* C15: get_role_permission returns the level configured under roles for the
\* role's id in the config it loaded, 0 when the config has no such entry and
\* 0 when there is no config; the members overrides and the owner play no part.
C15_RoleLevelIsOverride ==
    (ev.op = "get_role_permission" /\ Returned(ev)) =>
        /\ ev.level = Override(ev.config, "roles", ev.id)
        /\ ev.level = Override(SeqConfig(ev.g), "roles", ev.id)
        /\ ~Truthy(ev.config) => ev.level = 0

\* role R2 resolved to its 3 from a config that also gives the owner M0 a 2
C15_Witness ==
    /\ ev.op = "get_role_permission"
    /\ ev.kind = "loaded"
    /\ ev.id = "R2"
    /\ ev.level = 3
    /\ ValueAt(ev.config, "members", OwnerId(ev.g)) = <<TRUE, 2>>

----------------------------------------------------------------------------
(* Properties of the cache methods, under SpecCache *)

\* C16: delete_cached_guild returns True exactly when the guild had an entry,
\* fresh or stale; afterwards the guild has none, and the entries of all
\* other guilds are as they were.
C16_DeleteFrame ==
    [][ev'.kind = "deleted" =>
         /\ ev'.ok = (ev'.g \in DOMAIN guild_cache)
         /\ ev'.g \notin DOMAIN guild_cache'
         /\ DOMAIN guild_cache' = DOMAIN guild_cache \ {ev'.g}
         /\ \A h \in DOMAIN guild_cache' : guild_cache'[h] = guild_cache[h]]_vars

\* a stale entry of G1 was deleted, True was returned, G2 kept its entry
C16_Witness ==
    /\ ev.kind = "deleted"
    /\ ev.g = "G1"
    /\ ev.ok
    /\ ev.hadEntry
    /\ ~ev.wasFresh
    /\ DOMAIN guild_cache = {"G2"}

----------------------------------------------------------------------------
(* Cache and store once every call has returned *)

\* C17: once every call in flight has returned, an entry that is still fresh
\* holds exactly the permissions of the stored document; a reader that ran
\* find_one before a writer's verified write and calls cache_guild after it
\* leaves no older snapshot to be served.
C17_QuiescentAgreement ==
    \A g \in Tenants :
       (AllIdle /\ Truthy(get_cached_guild(guild_cache, g, now))) =>
           Payload(guild_cache[g]) = store[g].permissions

----------------------------------------------------------------------------
(* Properties of the loader, one call at a time *)

\* what the store has to give for g: its permissions, or none
StoredConfig(g) ==
    IF Truthy(store[g].permissions) THEN store[g].permissions ELSE None

\* C18: a read of a guild whose entry is 600 s old or older goes to the store
\* as a read of a guild with no entry does, and returns what the store holds,
\* whatever the entry held; the passing of time removes no entry: an entry
\* goes only when a write's verification fails and changes only by a
\* cache_guild of a load or of a verified write.
C18_StaleReadsLikeAbsent ==
    [][/\ (/\ ev'.kind \in {"hit", "miss"}
           /\ ev'.g \in DOMAIN guild_cache
           /\ Age(ev'.g) >= TTL * TicksPerSecond) =>
              /\ ev'.kind = "miss"
              /\ frame'[ev'.p].pc = "find_one"
       /\ ev'.kind = "loaded" =>
              /\ Payload(ev'.config) = StoredConfig(ev'.g)
              /\ Truthy(ev'.config) = Truthy(StoredConfig(ev'.g))
       /\ ev'.kind = "tick" => guild_cache' = guild_cache
       /\ \A g \in DOMAIN guild_cache :
              /\ g \notin DOMAIN guild_cache' =>
                     ev'.kind = "written" /\ ~ev'.ok /\ ev'.g = g
              /\ (g \in DOMAIN guild_cache' /\ guild_cache'[g] # guild_cache[g]) =>
                     /\ ev'.kind \in {"loaded", "written"}
                     /\ ev'.g = g
                     /\ guild_cache'[g] = CacheEntry(ev'.conf.permissions, now)]_vars

\* get_guild_config found a stale entry still in place, read the store and
\* returned the stored config
C18_Witness ==
    /\ ev.kind = "loaded"
    /\ ev.op = "get_guild_config"
    /\ ev.hadEntry
    /\ ~ev.wasFresh
    /\ Truthy(ev.config)
    /\ Payload(ev.config) = store[ev.g].permissions

\* C19: on a miss get_guild_config calls cache_guild and returns the config
\* only when the document it fetched carries non-empty permissions; with no
\* document or no permissions it returns none and leaves the cache as it
\* was, so that the calls after it read the store again.
C19_OnlyConfigsCached ==
    [][/\ ev'.kind = "loaded" =>
              IF Truthy(ev'.conf.permissions)
              THEN /\ ev'.g \in DOMAIN guild_cache'
                   /\ guild_cache'[ev'.g] = CacheEntry(ev'.conf.permissions, now)
                   /\ Payload(ev'.config) = ev'.conf.permissions
              ELSE /\ ev'.config = None
                   /\ guild_cache' = guild_cache
                   /\ ~Truthy(get_cached_guild(guild_cache', ev'.g, now))
       /\ (ev'.kind \in {"hit", "miss"} /\ ~Truthy(StoredConfig(ev'.g))) =>
              /\ ev'.kind = "miss"
              /\ ev'.g \notin DOMAIN guild_cache]_vars

\* the second call in a row found a document without permissions, returned
\* none and left no entry
C19_Witness ==
    /\ ev.kind = "loaded"
    /\ ev.conf = EmptyDoc
    /\ ev.config = None
    /\ ev.g \notin DOMAIN guild_cache
    /\ nops = 2

----------------------------------------------------------------------------
(* Where cached configs come from, under Spec *)

\* the coroutine in slot p holds a document the store has handed back
Holding(fr, p) == fr[p].pc \in {"find_one_done", "update_done"}

\* C20: every document a coroutine holds is the stored document of the moment
\* the store executed its request, and every entry put into the cache is the
\* whole permissions of such a document, held by a load or a verified write
\* that returns in that step, stamped with the rounded time of the put; no
\* entry is patched or made up.  A verified write stamps its entry with the
\* time it returns at, whatever the age of the entry it replaces.
C20_EntriesAreSnapshots ==
    [][/\ \A p \in Procs :
              (Holding(frame', p) /\ ~Holding(frame, p)) =>
                  frame'[p].resp = store'[frame'[p].g]
       /\ \A g \in DOMAIN guild_cache' :
              (g \notin DOMAIN guild_cache \/ guild_cache'[g] # guild_cache[g]) =>
                  \E p \in Procs :
                     /\ Holding(frame, p)
                     /\ frame[p].g = g
                     /\ frame'[p].pc = "idle"
                     /\ ev'.p = p
                     /\ ev'.kind \in {"loaded", "written"}
                     /\ Payload(guild_cache'[g]) = frame[p].resp.permissions
                     /\ guild_cache'[g]["last_refreshed"] = Round(now)
       /\ (ev'.kind = "written" /\ ev'.ok) =>
              /\ ev'.g \in DOMAIN guild_cache'
              /\ Payload(guild_cache'[ev'.g]) = frame[ev'.p].resp.permissions
              /\ guild_cache'[ev'.g]["last_refreshed"] = Round(now)]_vars

\* a verified write replaced a stale entry and stamped it with the present time
C20_Witness ==
    /\ ev.kind = "written"
    /\ ev.ok
    /\ ev.hadEntry
    /\ ~ev.wasFresh
    /\ Payload(guild_cache[ev.g]) = ev.conf.permissions
    /\ guild_cache[ev.g]["last_refreshed"] = Round(now)
    /\ Round(now) >= TTL

====
